---- MODULE Spec2Model ----
(***************************************************************************)
(* Model of the remotesync delta-synchronisation session of cafs:          *)
(* WriteChunkHashes, forEachChunk and WriteChunkData of remotesync/send.go *)
(* wired to the receiver by the three io.Pipe channels of testWithParams   *)
(* (remotesync/remotesync_test.go).                                        *)
(*                                                                         *)
(* The stream shuffler (package shuffle), the bit and varint codecs and    *)
(* the receiver (Builder) are modelled from sections 4.1-4.3, 4.6 and 4.8 *)
(* of spec.md.                                                             *)
(***************************************************************************)
EXTENDS Integers, Sequences, FiniteSets, TLC

\* Bounds of the model.
MaxSlots == 3      \* largest permutation domain size N_slots
MaxChunks == 3     \* largest number of chunks of the sender's file
MaxKey == 2        \* number of distinct chunk contents (keys 1..MaxKey)

\* The all-zero key that marks a placeholder slot.
emptyKey == 0

Keys == 1..MaxKey

\* Chunk sizes of the model: a one-byte and a two-byte varint.
SizeChoices == {1, 200}

Min(a, b) == IF a < b THEN a ELSE b

-----------------------------------------------------------------------------
\* Varint codec (spec.md 4.1): little-endian base 128, high bit = "more".

RECURSIVE writeVarint(_)
writeVarint(v) ==
    IF v < 128 THEN <<v>>
    ELSE <<(v % 128) + 128>> \o writeVarint(v \div 128)

MalformedVarint(bs) ==
    \/ bs = <<>>
    \/ Len(bs) > 10
    \/ bs[Len(bs)] >= 128
    \/ \E i \in 1..(Len(bs) - 1) : bs[i] < 128

RECURSIVE readVarint(_)
readVarint(bs) ==
    IF Len(bs) <= 1 THEN bs[1]
    ELSE (bs[1] - 128) + 128 * readVarint(Tail(bs))

-----------------------------------------------------------------------------
\* Bit codec (spec.md 4.2): bits are packed MSB-first, eight to a byte, the
\* final partial byte padded with zero bits.

BitsPerByte == 8

BitVal(b) == IF b THEN 1 ELSE 0

RECURSIVE PackBits(_)
PackBits(bits) ==
    IF bits = <<>> THEN 0
    ELSE BitVal(Head(bits)) * 2^(BitsPerByte - 1) + PackBits(Tail(bits)) \div 2

\* PackBits shifts the tail right by one position; the division is exact
\* because at most BitsPerByte bits are packed.
UnpackByte(b) ==
    [i \in 1..BitsPerByte |-> ((b \div 2^(BitsPerByte - i)) % 2) = 1]

-----------------------------------------------------------------------------
\* Stream shuffler (spec.md 4.3, 9): an ordered map from destination slot to
\* pending item plus the cursor of the next slot to emit. The permutation is
\* the session's perm, a Go slice: perm[i + 1] is the slot of logical index i.

Perms(n) ==
    {p \in [1..n -> 0..(n - 1)] : \A i, j \in 1..n : p[i] = p[j] => i = j}

NewStreamShuffler == [count |-> 0, pending |-> <<>>, next |-> 0]

\* put fails once the permutation domain is exhausted.
ShufCanPut(p, s) == s.count < Len(p)

\* Mutant: put ignores the permutation and buffers the item at its logical
\* index.
ShufPutUnpermuted(p, s, v) ==
    [s EXCEPT !.count = @ + 1, !.pending = (s.count :> v) @@ @]

ShufPut(p, s, v) ==
    [s EXCEPT !.count = @ + 1, !.pending = (p[s.count + 1] :> v) @@ @]

\* A slot is ready for emission when the item of the cursor's slot is
\* buffered or, after end(), while slots remain.
ShufReady(p, s, ended) ==
    IF ended THEN s.next < Len(p) ELSE s.next \in DOMAIN s.pending

ShufItem(s, placeholder) ==
    IF s.next \in DOMAIN s.pending THEN s.pending[s.next] ELSE placeholder

ShufAdvance(s) ==
    [s EXCEPT !.next = @ + 1,
              !.pending = [x \in (DOMAIN @) \ {s.next} |-> @[x]]]

-----------------------------------------------------------------------------
VARIABLES
    chunkSize, \* size in bytes of the chunk with each key
    perm,      \* the session's permutation, over N_slots = Len(perm) slots
    file,      \* the sender's file: the sequence of its chunks' keys
    storeB,    \* keys held by the receiver's store before the session
    cb,        \* whether WriteChunkData is given a status callback
    hwPc,      \* WriteChunkHashes: "put", "end", "done", "failed", "off"
    hwShuf,    \* its shuffler
    hwIter,    \* its chunk iterator: "none", "open" or "disposed"
    hwErr,     \* the error WriteChunkHashes returned, "" for none
    wwPc,      \* wishlist writer: "read", "flush", "close", "done", "failed", "off"
    wwAcc,     \* bits buffered by its bit writer
    slots,     \* the builder's record of the slots read so far
    lookups,   \* possession checks in flight, by position in the hash list
    dwPc,      \* WriteChunkData: "start", "put", "end", "done", "failed"
    dwShuf,    \* the shuffler of forEachChunk
    dwBits,    \* bits of the current wishlist byte not yet read
    dwErr,     \* the error WriteChunkData returned, "" for none
    bytesToTransfer,
    bytesTransferred,
    cbLog,     \* every snapshot the status callback was invoked with, in order
    calls,     \* calls made so far by forEachChunk and the per-chunk function
    rcPc,      \* reconstruction: "run", "done", "failed", "off"
    rcSlot,    \* number of slots it has processed
    rcChunks,  \* chunk content by logical index, emptyKey where none yet
    fileB,     \* the reconstructed file, once sealed
    pipe1,     \* hash list, sender to receiver
    pipe2,     \* wishlist, receiver to sender
    pipe3,     \* chunk data, sender to receiver
    hashOut,   \* every entry written to pipe 1, in order, with its slot
    wishOut,   \* every byte written to the wishlist stream, in order
    dataOut,   \* every chunk frame written to pipe 3, in order
    dwLog      \* every emission of forEachChunk: slot, key, wishlist bit

vars == <<chunkSize, perm, file, storeB, cb, hwPc, hwShuf, hwIter, hwErr, wwPc,
          wwAcc, slots, lookups, dwPc, dwShuf, dwBits, dwErr, bytesToTransfer, bytesTransferred,
          cbLog, calls, rcPc, rcSlot, rcChunks, fileB, pipe1, pipe2, pipe3,
          hashOut, wishOut, dataOut, dwLog>>

senderVars == <<dwPc, dwShuf, dwBits, dwErr, bytesToTransfer, bytesTransferred,
                cbLog, calls, dataOut, dwLog>>
hashVars == <<hwPc, hwShuf, hwIter, hwErr, hashOut>>
wishVars == <<wwPc, wwAcc, slots, lookups, wishOut>>
rebuildVars == <<rcPc, rcSlot, rcChunks, fileB>>
sessionVars == <<chunkSize, perm, file, storeB, cb>>

N == Len(perm)

\* An io.Pipe: at most one write in flight (the writer blocks until the
\* reader has taken it); closed is "open", "eof" (Close) or "err"
\* (CloseWithError).
NewPipe == [buf |-> <<>>, closed |-> "open"]

\* chunks.Size(), chunk.Size(): the key determines the content, hence the
\* size; the placeholder has size 0.
ChunkSize(key) == IF key = emptyKey THEN 0 ELSE chunkSize[key]

RECURSIVE SumSizes(_)
SumSizes(ks) == IF ks = <<>> THEN 0 ELSE ChunkSize(Head(ks)) + SumSizes(Tail(ks))

\* file.Size()
FileSize(f) == SumSizes(f)

\* Keys are interchangeable (size and possession are chosen freely per key),
\* so files are taken up to a renaming of the keys: a key occurs only after
\* every smaller key has occurred.
Files ==
    {f \in UNION {[1..k -> Keys] : k \in 0..MaxChunks} :
        \A i \in DOMAIN f : \A x \in 1..(f[i] - 1) : \E j \in 1..(i - 1) : f[j] = x}

\* The session of an empty file over four slots (spec.md 8); no item is put,
\* so the permutation only counts through its length: the rotations are taken.
EmptyFileSlots == 4

EmptyFilePerms ==
    {[i \in 1..EmptyFileSlots |-> (i - 1 + r) % EmptyFileSlots] :
        r \in 0..(EmptyFileSlots - 1)}

SessionInit ==
    /\ chunkSize \in [Keys -> SizeChoices]
    /\ storeB \in SUBSET Keys
    /\ \/ /\ \E n \in 1..MaxSlots : perm \in Perms(n)
          /\ file \in Files
       \/ /\ perm \in EmptyFilePerms
          /\ file = <<>>

\* The calls counted in calls: storage.Get, the per-chunk function f,
\* chunk.Dispose, chunk.Open and the reader's Close; iter is the state of the
\* file's chunk iterator: "none", "open" or "disposed".
NoCalls == [get |-> 0, f |-> 0, dispose |-> 0, open |-> 0, close |-> 0,
            iter |-> "none"]

\* WriteChunkData has been called and has not run yet.
SenderInit ==
    /\ dwPc = "start"
    /\ dwShuf = NewStreamShuffler
    /\ dwBits = <<>>
    /\ dwErr = ""
    /\ bytesToTransfer = 0
    /\ bytesTransferred = 0
    /\ cbLog = <<>>
    /\ calls = NoCalls
    /\ dataOut = <<>>
    /\ dwLog = <<>>
    /\ pipe3 = NewPipe

Init ==
    /\ SessionInit
    /\ SenderInit
    /\ cb = FALSE
    /\ hwPc = "put"
    /\ hwShuf = NewStreamShuffler
    /\ hwIter = "open"
    /\ hwErr = ""
    /\ hashOut = <<>>
    /\ wwPc = "read"
    /\ wwAcc = <<>>
    /\ slots = <<>>
    /\ lookups = <<>>
    /\ wishOut = <<>>
    /\ rcPc = "run"
    /\ rcSlot = 0
    /\ rcChunks = [i \in 1..N |-> emptyKey]
    /\ fileB = <<>>
    /\ pipe1 = NewPipe
    /\ pipe2 = NewPipe

-----------------------------------------------------------------------------
\* WriteChunkHashes, run by the first goroutine of testWithParams.

\* Mutant: the placeholder chunk is advertised with size 1.
emptyChunkSizeOne == [key |-> emptyKey, size |-> 1]

emptyChunk == [key |-> emptyKey, size |-> 0]

\* Mutant: the entry of a chunk carries the key of the chunk before it.
ChunkOfPreviousKey(i) ==
    [key |-> file[IF i = 0 THEN 1 ELSE i], size |-> ChunkSize(file[i + 1])]

\* chunk{chunks.Key(), chunks.Size()} of the chunk at logical index i
ChunkOf(i) == [key |-> file[i + 1], size |-> ChunkSize(file[i + 1])]

\* Mutant: the size is written as one raw byte instead of a varint.
HashEntryRawSize(c) == [key |-> c.key, size |-> <<c.size>>]

\* The emit callback: the key, then the size as a varint.
HashEntry(c) == [key |-> c.key, size |-> writeVarint(c.size)]

\* The loop body: the next chunk is put into the shuffler; a put that
\* exhausts the permutation domain makes WriteChunkHashes return the error,
\* and the goroutine closes pipe 1 with it.
HWPut ==
    /\ hwPc = "put"
    /\ pipe1.buf = <<>>
    /\ ~ShufReady(perm, hwShuf, FALSE)
    /\ hwShuf.count < Len(file)
    /\ IF ShufCanPut(perm, hwShuf)
       THEN /\ hwShuf' = ShufPut(perm, hwShuf, ChunkOf(hwShuf.count))
            /\ UNCHANGED <<hwPc, hwIter, hwErr, pipe1>>
       ELSE /\ hwPc' = "failed"
            /\ hwErr' = "PermutationExhausted"
            /\ hwIter' = "disposed"
            /\ pipe1' = [pipe1 EXCEPT !.closed = "err"]
            /\ UNCHANGED hwShuf
    /\ UNCHANGED <<hashOut, sessionVars, wishVars, senderVars, rebuildVars,
                   pipe2, pipe3>>

\* One emission of the shuffler: the entry is written to pipe 1.
HWEmit ==
    /\ hwPc \in {"put", "end"}
    /\ pipe1.buf = <<>>
    /\ ShufReady(perm, hwShuf, hwPc = "end")
    /\ LET e == HashEntry(ShufItem(hwShuf, emptyChunk))
       IN /\ pipe1' = [pipe1 EXCEPT !.buf = <<e>>]
          /\ hashOut' = Append(hashOut, [slot |-> hwShuf.next, key |-> e.key,
                                         size |-> e.size])
    /\ hwShuf' = ShufAdvance(hwShuf)
    /\ UNCHANGED <<hwPc, hwIter, hwErr, sessionVars, wishVars, senderVars, rebuildVars,
                   pipe2, pipe3>>

\* Mutant: WriteChunkHashes returns nil without calling shuffler.End().
HWEndSkipsPadding ==
    /\ hwPc = "put"
    /\ pipe1.buf = <<>>
    /\ ~ShufReady(perm, hwShuf, FALSE)
    /\ hwShuf.count = Len(file)
    /\ hwPc' = "done"
    /\ hwIter' = "disposed"
    /\ pipe1' = [pipe1 EXCEPT !.closed = "eof"]
    /\ UNCHANGED <<hwShuf, hwErr, hashOut, sessionVars, wishVars, senderVars,
                   rebuildVars, pipe2, pipe3>>

\* chunks.Next() returns false: shuffler.End() starts.
HWEnd ==
    /\ hwPc = "put"
    /\ pipe1.buf = <<>>
    /\ ~ShufReady(perm, hwShuf, FALSE)
    /\ hwShuf.count = Len(file)
    /\ hwPc' = "end"
    /\ UNCHANGED <<hwShuf, hwIter, hwErr, hashOut, sessionVars, wishVars, senderVars,
                   rebuildVars, pipe1, pipe2, pipe3>>

\* Mutant: the goroutine does not close pipe 1 when WriteChunkHashes returns.
HWReturnNoClose ==
    /\ hwPc = "end"
    /\ pipe1.buf = <<>>
    /\ ~ShufReady(perm, hwShuf, TRUE)
    /\ hwPc' = "done"
    /\ hwIter' = "disposed"
    /\ UNCHANGED <<hwShuf, hwErr, hashOut, sessionVars, wishVars, senderVars,
                   rebuildVars, pipe1, pipe2, pipe3>>

\* End() has emitted every slot: WriteChunkHashes returns nil, its deferred
\* chunks.Dispose() runs, and the goroutine closes pipe 1.
HWReturn ==
    /\ hwPc = "end"
    /\ pipe1.buf = <<>>
    /\ ~ShufReady(perm, hwShuf, TRUE)
    /\ hwPc' = "done"
    /\ hwIter' = "disposed"
    /\ pipe1' = [pipe1 EXCEPT !.closed = "eof"]
    /\ UNCHANGED <<hwShuf, hwErr, hashOut, sessionVars, wishVars, senderVars,
                   rebuildVars, pipe2, pipe3>>

-----------------------------------------------------------------------------
\* The receiver's wishlist generation (spec.md 4.6), run by the second
\* goroutine of testWithParams.

\* The possession check: a slot is requested when it carries a real chunk
\* whose key the receiver's store does not hold.
Requested(key) == key # emptyKey /\ key \notin storeB

\* One hash-list entry is read: key and varint size; the slot is recorded for
\* the reconstruction and its bit handed to the bit writer.
WWRead ==
    /\ wwPc = "read"
    /\ pipe2.buf = <<>>
    /\ pipe1.buf # <<>>
    /\ LET e == Head(pipe1.buf)
       IN IF MalformedVarint(e.size)
          THEN /\ wwPc' = "failed"
               /\ pipe2' = [pipe2 EXCEPT !.closed = "err"]
               /\ UNCHANGED <<slots, wwAcc>>
          ELSE /\ slots' = Append(slots, [key |-> e.key,
                                          size |-> readVarint(e.size),
                                          requested |-> Requested(e.key)])
               /\ wwAcc' = Append(wwAcc, Requested(e.key))
               /\ wwPc' = IF Len(wwAcc') = BitsPerByte THEN "flush" ELSE "read"
               /\ UNCHANGED pipe2
    /\ pipe1' = [pipe1 EXCEPT !.buf = Tail(@)]
    /\ UNCHANGED <<lookups, wishOut, sessionVars, hashVars, senderVars, rebuildVars, pipe3>>

\* The hash list has ended: a partial byte is still to be flushed, or the
\* wishlist is complete.
WWEof ==
    /\ wwPc = "read"
    /\ pipe2.buf = <<>>
    /\ pipe1.buf = <<>>
    /\ pipe1.closed = "eof"
    /\ wwPc' = IF wwAcc = <<>> THEN "close" ELSE "flush"
    /\ UNCHANGED <<wwAcc, slots, lookups, wishOut, sessionVars, hashVars, senderVars,
                   rebuildVars, pipe1, pipe2, pipe3>>

\* The bit writer writes a byte: eight buffered bits, or the final partial
\* byte padded with zero bits.
WWFlush ==
    /\ wwPc = "flush"
    /\ pipe2.buf = <<>>
    /\ pipe2' = [pipe2 EXCEPT !.buf = <<PackBits(wwAcc)>>]
    /\ wishOut' = Append(wishOut, PackBits(wwAcc))
    /\ wwAcc' = <<>>
    /\ wwPc' = "read"
    /\ UNCHANGED <<slots, lookups, sessionVars, hashVars, senderVars, rebuildVars,
                   pipe1, pipe3>>

\* WriteWishList returns nil and the goroutine closes pipe 2.
WWClose ==
    /\ wwPc = "close"
    /\ pipe2.buf = <<>>
    /\ wwPc' = "done"
    /\ pipe2' = [pipe2 EXCEPT !.closed = "eof"]
    /\ UNCHANGED <<wwAcc, slots, lookups, wishOut, sessionVars, hashVars, senderVars,
                   rebuildVars, pipe1, pipe3>>

\* Reading pipe 1 returns the error the hash writer closed it with:
\* WriteWishList fails and the goroutine closes pipe 2 with the error.
WWAbort ==
    /\ wwPc = "read"
    /\ pipe2.buf = <<>>
    /\ pipe1.buf = <<>>
    /\ pipe1.closed = "err"
    /\ wwPc' = "failed"
    /\ pipe2' = [pipe2 EXCEPT !.closed = "err"]
    /\ UNCHANGED <<wwAcc, slots, lookups, wishOut, sessionVars, hashVars, senderVars,
                   rebuildVars, pipe1, pipe3>>

-----------------------------------------------------------------------------
\* The wishlist generation with parallel possession checks (spec.md 4.6, 5):
\* up to Workers lookups run at a time and complete in any order; their
\* results are put back into slot order before they reach the bit writer.

\* The configured concurrency limit (8 in testWithParams), as bounded here.
Workers == 2

\* The positions whose lookup is still running.
Running == {q \in DOMAIN lookups : ~lookups[q].done}

\* A hash-list entry is read and its possession check started, while fewer
\* than Workers checks are running.
PWRead ==
    /\ wwPc = "read"
    /\ pipe1.buf # <<>>
    /\ Cardinality(Running) < Workers
    /\ LET e == Head(pipe1.buf)
           q == Len(slots) + Cardinality(DOMAIN lookups) + 1
       IN IF MalformedVarint(e.size)
          THEN /\ wwPc' = "failed"
               /\ pipe2' = [pipe2 EXCEPT !.closed = "err"]
               /\ UNCHANGED lookups
          ELSE /\ lookups' = (q :> [key |-> e.key, size |-> readVarint(e.size),
                                    done |-> FALSE]) @@ lookups
               /\ UNCHANGED <<wwPc, pipe2>>
    /\ pipe1' = [pipe1 EXCEPT !.buf = Tail(@)]
    /\ UNCHANGED <<wwAcc, slots, wishOut, sessionVars, hashVars, senderVars,
                   rebuildVars, pipe3>>

\* A running possession check completes.
PWLookup ==
    /\ wwPc = "read"
    /\ \E q \in Running : lookups' = [lookups EXCEPT ![q].done = TRUE]
    /\ UNCHANGED <<wwPc, wwAcc, slots, wishOut, sessionVars, hashVars, senderVars,
                   rebuildVars, pipe1, pipe2, pipe3>>

\* Mutant: a result goes to the bit writer as soon as its check completes.
PWCommitOnCompletion ==
    /\ wwPc = "read"
    /\ pipe2.buf = <<>>
    /\ \E q \in DOMAIN lookups :
           /\ lookups[q].done
           /\ slots' = Append(slots, [key |-> lookups[q].key,
                                      size |-> lookups[q].size,
                                      requested |-> Requested(lookups[q].key)])
           /\ wwAcc' = Append(wwAcc, Requested(lookups[q].key))
           /\ lookups' = [x \in (DOMAIN lookups) \ {q} |-> lookups[x]]
    /\ wwPc' = IF Len(wwAcc') = BitsPerByte THEN "flush" ELSE "read"
    /\ UNCHANGED <<wishOut, sessionVars, hashVars, senderVars, rebuildVars,
                   pipe1, pipe2, pipe3>>

\* The check of the next position in slot order has completed: the slot is
\* recorded and its bit handed to the bit writer.
PWCommit ==
    /\ wwPc = "read"
    /\ pipe2.buf = <<>>
    /\ LET q == Len(slots) + 1
       IN /\ q \in DOMAIN lookups
          /\ lookups[q].done
          /\ slots' = Append(slots, [key |-> lookups[q].key,
                                     size |-> lookups[q].size,
                                     requested |-> Requested(lookups[q].key)])
          /\ wwAcc' = Append(wwAcc, Requested(lookups[q].key))
          /\ lookups' = [x \in (DOMAIN lookups) \ {q} |-> lookups[x]]
    /\ wwPc' = IF Len(wwAcc') = BitsPerByte THEN "flush" ELSE "read"
    /\ UNCHANGED <<wishOut, sessionVars, hashVars, senderVars, rebuildVars,
                   pipe1, pipe2, pipe3>>

\* The hash list has ended and every check has been committed.
PWEof ==
    /\ lookups = <<>>
    /\ WWEof

-----------------------------------------------------------------------------
\* WriteChunkData and forEachChunk, run by the third goroutine.

\* The status snapshot handed to the callback.
Snapshot(toTransfer, transferred) ==
    [bytesToTransfer |-> toTransfer, bytesTransferred |-> transferred]

\* WriteChunkData begins: bytesToTransfer is the file's size, the callback is
\* told (bytesToTransfer, 0), and forEachChunk opens the chunk iterator.
DWStart ==
    /\ dwPc = "start"
    /\ bytesToTransfer' = FileSize(file)
    /\ cbLog' = IF cb THEN Append(cbLog, Snapshot(FileSize(file), 0)) ELSE cbLog
    /\ calls' = [calls EXCEPT !.iter = "open"]
    /\ dwPc' = "put"
    /\ UNCHANGED <<dwShuf, dwBits, dwErr, bytesTransferred, dataOut, dwLog,
                   sessionVars, hashVars, wishVars, rebuildVars, pipe1, pipe2,
                   pipe3>>

\* Mutant: the frame is taken from the iterator's current chunk, iter.Key(),
\* instead of the chunk the shuffler emitted.
ChunkFrameOfIterKey(key) ==
    [size |-> writeVarint(ChunkSize(file[dwShuf.count])),
     data |-> [key |-> file[dwShuf.count], len |-> ChunkSize(file[dwShuf.count])]]

\* Mutant: the length prefix is the number of bytes still to transfer
\* instead of the chunk's size.
ChunkFramePrefixTotal(key) ==
    [size |-> writeVarint(bytesToTransfer),
     data |-> [key |-> key, len |-> ChunkSize(key)]]

\* What the per-chunk function writes for a requested chunk: the size as a
\* varint, then the chunk's bytes (io.Copy of chunk.Open()).
ChunkFrame(key) ==
    [size |-> writeVarint(ChunkSize(key)),
     data |-> [key |-> key, len |-> ChunkSize(key)]]

\* Mutant: an error is recorded but the iteration goes on.
DWReturnsErrorGoesOn(err, c) ==
    /\ dwErr' = IF dwErr = "" THEN err ELSE dwErr
    /\ calls' = c
    /\ UNCHANGED <<dwPc, pipe3>>

\* WriteChunkData returns err after the calls c: the deferred iter.Dispose()
\* runs, and the goroutine closes pipe 3 with the error.
DWReturnsError(err, c) ==
    /\ dwPc' = "failed"
    /\ dwErr' = err
    /\ calls' = [c EXCEPT !.iter = "disposed"]
    /\ pipe3' = [pipe3 EXCEPT !.closed = "err"]

\* Mutant: a put beyond the permutation domain is dropped without an error.
DWPutDropsExtra ==
    /\ dwPc = "put"
    /\ pipe3.buf = <<>>
    /\ ~ShufReady(perm, dwShuf, FALSE)
    /\ dwShuf.count < Len(file)
    /\ dwShuf' = IF ShufCanPut(perm, dwShuf)
                 THEN ShufPut(perm, dwShuf, file[dwShuf.count + 1])
                 ELSE [dwShuf EXCEPT !.count = @ + 1]
    /\ UNCHANGED <<dwPc, dwErr, calls, pipe3, dwBits, bytesToTransfer,
                   bytesTransferred, cbLog, dataOut, dwLog, sessionVars, hashVars,
                   wishVars, rebuildVars, pipe1, pipe2>>

\* The loop of forEachChunk: the next key is put into the shuffler; a put
\* that exhausts the permutation domain makes forEachChunk return the error.
DWPut ==
    /\ dwPc = "put"
    /\ pipe3.buf = <<>>
    /\ ~ShufReady(perm, dwShuf, FALSE)
    /\ dwShuf.count < Len(file)
    /\ IF ShufCanPut(perm, dwShuf)
       THEN /\ dwShuf' = ShufPut(perm, dwShuf, file[dwShuf.count + 1])
            /\ UNCHANGED <<dwPc, dwErr, calls, pipe3>>
       ELSE /\ DWReturnsError("PermutationExhausted", calls)
            /\ UNCHANGED dwShuf
    /\ UNCHANGED <<dwBits, bytesToTransfer, bytesTransferred, cbLog, dataOut,
                   dwLog, sessionVars, hashVars, wishVars, rebuildVars, pipe1,
                   pipe2>>

\* The calls after a real chunk has been handled without error: storage.Get,
\* f and chunk.Dispose, and for a requested chunk chunk.Open and the deferred
\* r.Close.
ChunkCalls(requested) ==
    [calls EXCEPT !.get = @ + 1, !.f = @ + 1, !.dispose = @ + 1,
                  !.open = IF requested THEN @ + 1 ELSE @,
                  !.close = IF requested THEN @ + 1 ELSE @]

\* Mutant: the chunk is written whether requested or not.
DWChunkAlwaysSends(key, requested) ==
    /\ pipe3' = [pipe3 EXCEPT !.buf = <<ChunkFrame(key)>>]
    /\ dataOut' = Append(dataOut, ChunkFrame(key))
    /\ bytesTransferred' = bytesTransferred + ChunkSize(key)
    /\ UNCHANGED bytesToTransfer
    /\ cbLog' = IF cb THEN Append(cbLog, Snapshot(bytesToTransfer', bytesTransferred'))
                ELSE cbLog
    /\ calls' = ChunkCalls(TRUE)
    /\ dwShuf' = ShufAdvance(dwShuf)
    /\ UNCHANGED <<dwPc, dwErr>>

\* Mutant: a chunk that is not requested leaves bytesToTransfer as it is.
DWChunkKeepsTotal(key, requested) ==
    /\ IF requested
       THEN /\ pipe3' = [pipe3 EXCEPT !.buf = <<ChunkFrame(key)>>]
            /\ dataOut' = Append(dataOut, ChunkFrame(key))
            /\ bytesTransferred' = bytesTransferred + ChunkSize(key)
       ELSE UNCHANGED <<pipe3, dataOut, bytesTransferred>>
    /\ UNCHANGED bytesToTransfer
    /\ cbLog' = IF cb THEN Append(cbLog, Snapshot(bytesToTransfer', bytesTransferred'))
                ELSE cbLog
    /\ calls' = ChunkCalls(requested)
    /\ dwShuf' = ShufAdvance(dwShuf)
    /\ UNCHANGED <<dwPc, dwErr>>

\* Mutant: the callback is notified only of the chunks that were sent.
DWChunkCallbackOnSend(key, requested) ==
    /\ IF requested
       THEN /\ pipe3' = [pipe3 EXCEPT !.buf = <<ChunkFrame(key)>>]
            /\ dataOut' = Append(dataOut, ChunkFrame(key))
            /\ bytesTransferred' = bytesTransferred + ChunkSize(key)
            /\ UNCHANGED bytesToTransfer
       ELSE /\ bytesToTransfer' = bytesToTransfer - ChunkSize(key)
            /\ UNCHANGED <<pipe3, dataOut, bytesTransferred>>
    /\ cbLog' = IF cb /\ requested
                THEN Append(cbLog, Snapshot(bytesToTransfer', bytesTransferred'))
                ELSE cbLog
    /\ calls' = ChunkCalls(requested)
    /\ dwShuf' = ShufAdvance(dwShuf)
    /\ UNCHANGED <<dwPc, dwErr>>

\* storage.Get has returned the chunk: the per-chunk function of
\* WriteChunkData runs (its writes succeed), the callback is told the new
\* snapshot, and the chunk is disposed.
DWChunk(key, requested) ==
    /\ IF requested
       THEN /\ pipe3' = [pipe3 EXCEPT !.buf = <<ChunkFrame(key)>>]
            /\ dataOut' = Append(dataOut, ChunkFrame(key))
            /\ bytesTransferred' = bytesTransferred + ChunkSize(key)
            /\ UNCHANGED bytesToTransfer
       ELSE /\ bytesToTransfer' = bytesToTransfer - ChunkSize(key)
            /\ UNCHANGED <<pipe3, dataOut, bytesTransferred>>
    /\ cbLog' = IF cb THEN Append(cbLog, Snapshot(bytesToTransfer', bytesTransferred'))
                ELSE cbLog
    /\ calls' = ChunkCalls(requested)
    /\ dwShuf' = ShufAdvance(dwShuf)
    /\ UNCHANGED <<dwPc, dwErr>>

\* Mutant: a placeholder slot is skipped whatever its bit.
DWSlotAcceptsPlaceholder(key, b) ==
    IF key = emptyKey
    THEN /\ dwShuf' = ShufAdvance(dwShuf)
         /\ UNCHANGED <<dwPc, dwErr, pipe3, dataOut, bytesToTransfer,
                        bytesTransferred, cbLog, calls>>
    ELSE DWChunk(key, b)

\* Mutant: a placeholder that is not requested is handled as a chunk.
DWSlotPlaceholderAsChunk(key, b) ==
    IF key = emptyKey /\ b
    THEN /\ DWReturnsError("SpuriousRequest", calls)
         /\ UNCHANGED <<dwShuf, dataOut, bytesToTransfer, bytesTransferred,
                        cbLog>>
    ELSE DWChunk(key, b)

\* The emit callback of forEachChunk for one slot, given the bit read for it.
DWSlot(key, b) ==
    IF key = emptyKey
    THEN IF b
         THEN /\ DWReturnsError("SpuriousRequest", calls)
              /\ UNCHANGED <<dwShuf, dataOut, bytesToTransfer, bytesTransferred,
                             cbLog>>
         ELSE /\ dwShuf' = ShufAdvance(dwShuf)
              /\ UNCHANGED <<dwPc, dwErr, pipe3, dataOut, bytesToTransfer,
                             bytesTransferred, cbLog, calls>>
    ELSE DWChunk(key, b)

\* The bits the bit reader holds once ReadBit has refilled it: its own, or
\* those of the next byte of the wishlist; none when the byte source has ended
\* (ReadBit then returns the error).
ReadBits ==
    IF dwBits # <<>> THEN dwBits
    ELSE IF pipe2.buf # <<>> THEN UnpackByte(Head(pipe2.buf))
    ELSE <<>>

\* Mutant: a bit that cannot be read counts as false.
DWEmissionMissingBitFalse(key, bits) ==
    /\ dwBits' = IF bits = <<>> THEN <<>> ELSE Tail(bits)
    /\ dwLog' = Append(dwLog, [slot |-> dwShuf.next, key |-> key,
                               bit |-> IF bits = <<>> THEN FALSE ELSE Head(bits)])
    /\ DWSlot(key, IF bits = <<>> THEN FALSE ELSE Head(bits))

\* The emit callback of forEachChunk, given the bit reader's bits.
DWEmission(key, bits) ==
    IF bits = <<>>
    THEN /\ DWReturnsError("WishlistTooShort", calls)
         /\ UNCHANGED <<dwShuf, dwBits, dataOut, dwLog, bytesToTransfer,
                        bytesTransferred, cbLog>>
    ELSE /\ dwBits' = Tail(bits)
         /\ dwLog' = Append(dwLog, [slot |-> dwShuf.next, key |-> key,
                                    bit |-> Head(bits)])
         /\ DWSlot(key, Head(bits))

\* One emission of the shuffler in forEachChunk: a wishlist bit is read
\* (a byte is taken from pipe 2 when the bit reader holds no bit), then the
\* slot is handled.
DWEmit ==
    /\ dwPc \in {"put", "end"}
    /\ pipe3.buf = <<>>
    /\ ShufReady(perm, dwShuf, dwPc = "end")
    /\ dwBits # <<>> \/ pipe2.buf # <<>> \/ pipe2.closed # "open"
    /\ DWEmission(ShufItem(dwShuf, emptyKey), ReadBits)
    /\ pipe2' = IF dwBits = <<>> /\ pipe2.buf # <<>>
                THEN [pipe2 EXCEPT !.buf = Tail(@)] ELSE pipe2
    /\ UNCHANGED <<sessionVars, hashVars, wishVars, rebuildVars, pipe1>>

\* iter.Next() returns false: shuffler.End() starts.
DWEnd ==
    /\ dwPc = "put"
    /\ pipe3.buf = <<>>
    /\ ~ShufReady(perm, dwShuf, FALSE)
    /\ dwShuf.count = Len(file)
    /\ dwPc' = "end"
    /\ UNCHANGED <<dwShuf, dwBits, dwErr, bytesToTransfer, bytesTransferred,
                   cbLog, calls, dataOut, dwLog, sessionVars, hashVars, wishVars,
                   rebuildVars, pipe1, pipe2, pipe3>>

\* Mutant: forEachChunk returns nil after End() without reading on.
DWTailNoCheck ==
    /\ dwPc = "end"
    /\ pipe3.buf = <<>>
    /\ ~ShufReady(perm, dwShuf, TRUE)
    /\ dwPc' = "done"
    /\ calls' = [calls EXCEPT !.iter = "disposed"]
    /\ pipe3' = [pipe3 EXCEPT !.closed = "eof"]
    /\ UNCHANGED <<dwErr, pipe2, dwShuf, dwBits, bytesToTransfer,
                   bytesTransferred, cbLog, dataOut, dwLog, sessionVars,
                   hashVars, wishVars, rebuildVars, pipe1>>

\* End() returned nil: r.ReadByte() must return io.EOF; anything else, a byte
\* or another error, is "Wishlist too long". forEachChunk returns, its
\* deferred iter.Dispose() runs, and the goroutine closes pipe 3.
DWTail ==
    /\ dwPc = "end"
    /\ pipe3.buf = <<>>
    /\ ~ShufReady(perm, dwShuf, TRUE)
    /\ pipe2.buf # <<>> \/ pipe2.closed # "open"
    /\ IF pipe2.buf = <<>> /\ pipe2.closed = "eof"
       THEN /\ dwPc' = "done"
            /\ calls' = [calls EXCEPT !.iter = "disposed"]
            /\ pipe3' = [pipe3 EXCEPT !.closed = "eof"]
            /\ UNCHANGED <<dwErr, pipe2>>
       ELSE /\ DWReturnsError("WishlistTooLong", calls)
            /\ pipe2' = [pipe2 EXCEPT !.buf = IF @ = <<>> THEN @ ELSE Tail(@)]
    /\ UNCHANGED <<dwShuf, dwBits, bytesToTransfer, bytesTransferred, cbLog,
                   dataOut, dwLog, sessionVars, hashVars, wishVars, rebuildVars,
                   pipe1>>

-----------------------------------------------------------------------------
\* The receiver's reconstruction (spec.md 4.8), run by the test's own
\* goroutine. It walks the slots the wishlist generation recorded; the
\* shuffler of 4.6 "matching the sender's permutation" gives each slot its
\* logical index, which is where the chunk belongs in the rebuilt file.

\* Logical index of the chunk that the permutation sent to a slot.
InvPerm(slot) == CHOOSE i \in 0..(N - 1) : perm[i + 1] = slot

\* Position of a slot's chunk in the rebuilt file.
RebuildIndex(slot) == InvPerm(slot)

\* A chunk frame is acceptable for a slot when its varint decodes, the bytes
\* that follow are as many as it says, and that is the advertised size.
FrameOk(frame, slotRec) ==
    /\ ~MalformedVarint(frame.size)
    /\ readVarint(frame.size) = frame.data.len
    /\ frame.data.len = slotRec.size

RCStep ==
    /\ rcPc = "run"
    /\ rcSlot < Len(slots)
    /\ LET s == slots[rcSlot + 1]
       IN IF s.key = emptyKey
          THEN /\ rcSlot' = rcSlot + 1
               /\ UNCHANGED <<rcPc, rcChunks, pipe3>>
          ELSE IF ~s.requested
          THEN /\ rcSlot' = rcSlot + 1
               /\ rcChunks' = [rcChunks EXCEPT ![RebuildIndex(rcSlot) + 1] = s.key]
               /\ UNCHANGED <<rcPc, pipe3>>
          ELSE /\ pipe3.buf # <<>> \/ pipe3.closed # "open"
               /\ IF pipe3.buf # <<>> /\ FrameOk(Head(pipe3.buf), s)
                  THEN /\ rcSlot' = rcSlot + 1
                       /\ rcChunks' = [rcChunks EXCEPT ![RebuildIndex(rcSlot) + 1] =
                                                        Head(pipe3.buf).data.key]
                       /\ UNCHANGED rcPc
                  ELSE /\ rcPc' = "failed"
                       /\ UNCHANGED <<rcSlot, rcChunks>>
               /\ pipe3' = [pipe3 EXCEPT !.buf = IF @ = <<>> THEN @ ELSE Tail(@)]
    /\ UNCHANGED <<fileB, sessionVars, hashVars, wishVars, senderVars, pipe1, pipe2>>

\* Every recorded slot is processed and the wishlist generation has ended:
\* the chunk-data stream must end too; then the file is sealed.
RCSeal ==
    /\ rcPc = "run"
    /\ rcSlot = Len(slots)
    /\ wwPc \in {"done", "failed"}
    /\ pipe3.buf # <<>> \/ pipe3.closed # "open"
    /\ IF pipe3.buf = <<>> /\ pipe3.closed = "eof"
       THEN /\ rcPc' = "done"
            /\ fileB' = SelectSeq(rcChunks, LAMBDA k : k # emptyKey)
       ELSE /\ rcPc' = "failed"
            /\ UNCHANGED fileB
    /\ pipe3' = [pipe3 EXCEPT !.buf = IF @ = <<>> THEN @ ELSE Tail(@)]
    /\ UNCHANGED <<rcSlot, rcChunks, sessionVars, hashVars, wishVars, senderVars,
                   pipe1, pipe2>>

-----------------------------------------------------------------------------
\* The session of testWithParams: four stages, three pipes.

HashWriter == HWPut \/ HWEmit \/ HWEnd \/ HWReturn
WishlistWriter == WWRead \/ WWEof \/ WWFlush \/ WWClose \/ WWAbort
DataWriter == DWStart \/ DWPut \/ DWEmit \/ DWEnd \/ DWTail
Rebuild == RCStep \/ RCSeal

Next == HashWriter \/ WishlistWriter \/ DataWriter \/ Rebuild

Spec == Init /\ [][Next]_vars

\* The four goroutines are scheduled fairly.
Fairness ==
    /\ WF_vars(HashWriter)
    /\ WF_vars(WishlistWriter)
    /\ WF_vars(DataWriter)
    /\ WF_vars(Rebuild)

\* The sizes of the chunks decide no branch of any stage; liveness is
\* explored for one assignment of them, with both varint widths.
LiveInit == Init /\ chunkSize = [k \in Keys |-> IF k % 2 = 1 THEN 200 ELSE 1]

LiveSpec == LiveInit /\ [][Next]_vars /\ Fairness

-----------------------------------------------------------------------------
\* A session in which one stage fails: its operation returns an error at
\* some point (a failed write, lookup or read), and the goroutine closes the
\* stage's outbound pipe with the error.

NoFailure == "failed" \notin {hwPc, wwPc, dwPc, rcPc}

\* w.Write fails in WriteChunkHashes.
HWFault ==
    /\ NoFailure
    /\ hwPc \in {"put", "end"}
    /\ pipe1.buf = <<>>
    /\ hwPc' = "failed"
    /\ hwIter' = "disposed"
    /\ hwErr' = "WriteFailed"
    /\ pipe1' = [pipe1 EXCEPT !.closed = "err"]
    /\ UNCHANGED <<hwShuf, hashOut, sessionVars, wishVars, senderVars,
                   rebuildVars, pipe2, pipe3>>

\* A storage lookup fails in the wishlist generation.
WWFault ==
    /\ NoFailure
    /\ wwPc \in {"read", "flush", "close"}
    /\ pipe2.buf = <<>>
    /\ wwPc' = "failed"
    /\ pipe2' = [pipe2 EXCEPT !.closed = "err"]
    /\ UNCHANGED <<wwAcc, slots, lookups, wishOut, sessionVars, hashVars, senderVars,
                   rebuildVars, pipe1, pipe3>>

\* storage.Get fails in forEachChunk, after the slot's bit has been read.
DWFault ==
    /\ NoFailure
    /\ dwPc \in {"put", "end"}
    /\ pipe3.buf = <<>>
    /\ ShufReady(perm, dwShuf, dwPc = "end")
    /\ ShufItem(dwShuf, emptyKey) # emptyKey
    /\ dwBits # <<>> \/ pipe2.buf # <<>>
    /\ dwBits' = Tail(ReadBits)
    /\ pipe2' = IF dwBits = <<>> THEN [pipe2 EXCEPT !.buf = Tail(@)] ELSE pipe2
    /\ dwLog' = Append(dwLog, [slot |-> dwShuf.next,
                               key |-> ShufItem(dwShuf, emptyKey),
                               bit |-> Head(ReadBits)])
    /\ DWReturnsError("ChunkNotFound", [calls EXCEPT !.get = @ + 1])
    /\ UNCHANGED <<dwShuf, bytesToTransfer, bytesTransferred, cbLog, dataOut,
                   sessionVars, hashVars, wishVars, rebuildVars, pipe1>>

\* Mutant: the chunk is not disposed when the per-chunk function fails.
FailedChunkCallsNoDispose(opened) ==
    [calls EXCEPT !.get = @ + 1, !.f = @ + 1,
                  !.open = IF opened THEN @ + 1 ELSE @,
                  !.close = IF opened THEN @ + 1 ELSE @]

\* The calls after the per-chunk function has failed on a requested chunk:
\* storage.Get, f, chunk.Dispose, and chunk.Open with the deferred r.Close
\* when the failure came after the chunk was opened.
FailedChunkCalls(opened) ==
    [calls EXCEPT !.get = @ + 1, !.f = @ + 1, !.dispose = @ + 1,
                  !.open = IF opened THEN @ + 1 ELSE @,
                  !.close = IF opened THEN @ + 1 ELSE @]

\* A write to w fails in the per-chunk function of a requested chunk: in
\* writeVarint, before the chunk is opened, or in io.Copy, after the varint
\* has been written. f returns the error without a callback, forEachChunk
\* disposes of the chunk and returns the error.
DWWriteFault ==
    /\ dwPc \in {"put", "end"}
    /\ pipe3.buf = <<>>
    /\ ShufReady(perm, dwShuf, dwPc = "end")
    /\ ShufItem(dwShuf, emptyKey) # emptyKey
    /\ ReadBits # <<>>
    /\ Head(ReadBits)
    /\ dwBits' = Tail(ReadBits)
    /\ pipe2' = IF dwBits = <<>> THEN [pipe2 EXCEPT !.buf = Tail(@)] ELSE pipe2
    /\ dwLog' = Append(dwLog, [slot |-> dwShuf.next,
                               key |-> ShufItem(dwShuf, emptyKey),
                               bit |-> TRUE])
    /\ \E opened \in BOOLEAN :
           /\ dataOut' = IF opened
                         THEN Append(dataOut,
                                     [ChunkFrame(ShufItem(dwShuf, emptyKey))
                                          EXCEPT !.data.len = 0])
                         ELSE dataOut
           /\ DWReturnsError("WriteFailed", FailedChunkCalls(opened))
    /\ UNCHANGED <<dwShuf, bytesToTransfer, bytesTransferred, cbLog,
                   sessionVars, hashVars, wishVars, rebuildVars, pipe1>>

\* The reconstruction fails (a storage write fails): the test ends.
RCFault ==
    /\ NoFailure
    /\ rcPc = "run"
    /\ rcPc' = "failed"
    /\ UNCHANGED <<rcSlot, rcChunks, fileB, sessionVars, hashVars, wishVars,
                   senderVars, pipe1, pipe2, pipe3>>

Fault == HWFault \/ WWFault \/ DWFault \/ RCFault

FaultNext == Next \/ Fault

FaultSpec == Init /\ [][FaultNext]_vars /\ Fairness

-----------------------------------------------------------------------------
\* WriteChunkData on its own, against an arbitrary wishlist byte source r
\* (preloaded in pipe 2) and a writer w that takes every write.

\* Bytes whose first n bits are arbitrary and whose padding is all zeros or
\* all ones.
WishBytes(n) ==
    {PackBits([i \in 1..BitsPerByte |-> IF i <= n THEN b[i] ELSE pad]) :
        b \in [1..n -> BOOLEAN], pad \in BOOLEAN}

Wishlists(n) ==
    {<<>>} \cup {<<x>> : x \in WishBytes(n)} \cup {<<x, 0>> : x \in WishBytes(n)}

\* Sessions whose wishlist takes more than one byte: N_slots = BitsPerByte + 1,
\* with the identity, two rotations and the reversal as permutations, and
\* wishlists of up to three bytes.
LongSlots == BitsPerByte + 1

LongPerms ==
    {[i \in 1..LongSlots |-> (i - 1 + r) % LongSlots] : r \in {0, 1, LongSlots - 1}}
        \cup {[i \in 1..LongSlots |-> LongSlots - i]}

LongBytes == {0, 128, 255}

LongWishlists == UNION {[1..n -> LongBytes] : n \in 0..(LongSlots \div BitsPerByte + 2)}

SenderOnlyInit ==
    /\ chunkSize \in [Keys -> SizeChoices]
    /\ perm \in UNION {Perms(n) : n \in 1..MaxSlots} \cup LongPerms
    /\ file \in Files
    /\ storeB = {}
    /\ SenderInit
    /\ cb = TRUE
    /\ hwPc = "off"
    /\ hwShuf = NewStreamShuffler
    /\ hwIter = "none"
    /\ hwErr = ""
    /\ hashOut = <<>>
    /\ wwPc = "off"
    /\ wwAcc = <<>>
    /\ slots = <<>>
    /\ lookups = <<>>
    /\ rcPc = "off"
    /\ rcSlot = 0
    /\ rcChunks = <<>>
    /\ fileB = <<>>
    /\ pipe1 = NewPipe
    /\ \E w \in (IF N <= BitsPerByte THEN Wishlists(N) ELSE LongWishlists),
          c \in {"eof", "err"} :
           /\ wishOut = w
           /\ pipe2 = [buf |-> w, closed |-> c]

\* The writer w accepts the frame.
Sink ==
    /\ rcPc = "off"
    /\ pipe3.buf # <<>>
    /\ pipe3' = [pipe3 EXCEPT !.buf = <<>>]
    /\ UNCHANGED <<sessionVars, hashVars, wishVars, senderVars, rebuildVars,
                   pipe1, pipe2>>

SenderNext == DataWriter \/ Sink

SenderSpec == SenderOnlyInit /\ [][SenderNext]_vars

-----------------------------------------------------------------------------
\* The wishlist generation on its own, with parallel possession checks,
\* against an arbitrary well-formed hash list (preloaded in pipe 1) and a
\* reader that takes every byte of the wishlist.

HashLists ==
    UNION {[1..n -> {emptyKey} \cup Keys] : n \in 1..MaxSlots}

ReceiverOnlyInit ==
    /\ chunkSize \in [Keys -> SizeChoices]
    /\ storeB \in SUBSET Keys
    /\ file = <<>>
    /\ cb = FALSE
    /\ \E ks \in HashLists :
           /\ perm = [i \in 1..Len(ks) |-> i - 1]
           /\ hashOut = [s \in 1..Len(ks) |->
                            [slot |-> s - 1, key |-> ks[s],
                             size |-> writeVarint(ChunkSize(ks[s]))]]
           /\ pipe1 = [buf |-> [s \in 1..Len(ks) |->
                                   HashEntry([key |-> ks[s], size |-> ChunkSize(ks[s])])],
                       closed |-> "eof"]
    /\ hwPc = "off"
    /\ hwShuf = NewStreamShuffler
    /\ hwIter = "none"
    /\ hwErr = ""
    /\ wwPc = "read"
    /\ wwAcc = <<>>
    /\ slots = <<>>
    /\ lookups = <<>>
    /\ wishOut = <<>>
    /\ dwPc = "off"
    /\ dwShuf = NewStreamShuffler
    /\ dwBits = <<>>
    /\ dwErr = ""
    /\ bytesToTransfer = 0
    /\ bytesTransferred = 0
    /\ cbLog = <<>>
    /\ calls = NoCalls
    /\ dataOut = <<>>
    /\ dwLog = <<>>
    /\ rcPc = "off"
    /\ rcSlot = 0
    /\ rcChunks = <<>>
    /\ fileB = <<>>
    /\ pipe2 = NewPipe
    /\ pipe3 = NewPipe

\* The reader of the wishlist takes the byte.
WishSink ==
    /\ dwPc = "off"
    /\ pipe2.buf # <<>>
    /\ pipe2' = [pipe2 EXCEPT !.buf = <<>>]
    /\ UNCHANGED <<sessionVars, hashVars, wishVars, senderVars, rebuildVars,
                   pipe1, pipe3>>

ParallelWishlistWriter == PWRead \/ PWLookup \/ PWCommit \/ PWEof \/ WWFlush \/ WWClose

ReceiverNext == ParallelWishlistWriter \/ WishSink

ReceiverSpec == ReceiverOnlyInit /\ [][ReceiverNext]_vars

-----------------------------------------------------------------------------
\* The sender's two operations, each on its own: WriteChunkHashes against a
\* writer that takes every entry, or WriteChunkData as in SenderOnlyInit with
\* a wishlist source that ends with io.EOF; a write to w or a storage lookup
\* may fail.

HashOnlyInit ==
    /\ chunkSize \in [Keys -> SizeChoices]
    /\ \E n \in 1..MaxSlots : perm \in Perms(n)
    /\ file \in Files
    /\ storeB = {}
    /\ cb = FALSE
    /\ hwPc = "put"
    /\ hwShuf = NewStreamShuffler
    /\ hwIter = "open"
    /\ hwErr = ""
    /\ hashOut = <<>>
    /\ wwPc = "off"
    /\ wwAcc = <<>>
    /\ slots = <<>>
    /\ lookups = <<>>
    /\ wishOut = <<>>
    /\ dwPc = "off"
    /\ dwShuf = NewStreamShuffler
    /\ dwBits = <<>>
    /\ dwErr = ""
    /\ bytesToTransfer = 0
    /\ bytesTransferred = 0
    /\ cbLog = <<>>
    /\ calls = NoCalls
    /\ dataOut = <<>>
    /\ dwLog = <<>>
    /\ rcPc = "off"
    /\ rcSlot = 0
    /\ rcChunks = <<>>
    /\ fileB = <<>>
    /\ pipe1 = NewPipe
    /\ pipe2 = NewPipe
    /\ pipe3 = NewPipe

\* The writer w of WriteChunkHashes accepts the entry.
HashSink ==
    /\ wwPc = "off"
    /\ pipe1.buf # <<>>
    /\ pipe1' = [pipe1 EXCEPT !.buf = <<>>]
    /\ UNCHANGED <<sessionVars, hashVars, wishVars, senderVars, rebuildVars,
                   pipe2, pipe3>>

SendInit == HashOnlyInit \/ (SenderOnlyInit /\ pipe2.closed = "eof")

SendFault == HWFault \/ DWFault \/ DWWriteFault

SendNext == HashWriter \/ HashSink \/ DataWriter \/ Sink \/ SendFault

SendSpec == SendInit /\ [][SendNext]_vars

-----------------------------------------------------------------------------
\* Properties.

Terminated(pc) == pc \in {"done", "failed"}

AllDone == hwPc = "done" /\ wwPc = "done" /\ dwPc = "done" /\ rcPc = "done"

\* Logical indices of the file's chunks (1-based) and what the receiver lacks.
Missing == {i \in 1..Len(file) : file[i] \notin storeB}

\* The slots that carry no chunk of the file.
PlaceholderSlots == {s \in 0..(N - 1) : \A i \in 1..Min(Len(file), N) : perm[i] # s}

FailureUnblocksEveryStage ==
    ~NoFailure =>
        /\ ~(pipe1.buf # <<>> /\ Terminated(wwPc))
        /\ ~(pipe2.buf # <<>> /\ Terminated(dwPc))
        /\ ~(pipe3.buf # <<>> /\ Terminated(rcPc))

\* C3 (pipeline progress): with k <= N chunks and fair scheduling of the four
\* stages, every stage eventually terminates without error.
PipelineProgress == (Len(file) <= N) ~> AllDone

\* The session of a file that fills every slot has completed.
PipelineProgressWitness ==
    /\ AllDone
    /\ Len(file) = N
    /\ N >= 2
    /\ Len(dataOut) >= 2

\* C4 (shuffler coverage): after k <= N puts and end, emit has been invoked N
\* times, for the slots 0..N-1 in ascending order; slot perm(i) carries the
\* i-th item and every other slot the placeholder. Stated of both shufflers.
ShufflerCoverage ==
    /\ hwPc = "done" =>
        /\ Len(hashOut) = N
        /\ \A j \in 1..N : hashOut[j].slot = j - 1
        /\ \A i \in 1..Len(file) : hashOut[perm[i] + 1].key = file[i]
        /\ \A s \in PlaceholderSlots : hashOut[s + 1].key = emptyKey
    /\ dwPc = "done" =>
        /\ Len(dwLog) = N
        /\ \A j \in 1..N : dwLog[j].slot = j - 1
        /\ \A i \in 1..Len(file) : dwLog[perm[i] + 1].key = file[i]
        /\ \A s \in PlaceholderSlots : dwLog[s + 1].key = emptyKey

\* Both shufflers have emitted every slot, with chunks out of order and a
\* placeholder among them.
ShufflerCoverageWitness ==
    /\ hwPc = "done"
    /\ dwPc = "done"
    /\ Len(file) >= 2
    /\ Len(file) < N
    /\ perm[1] > perm[2]

\* C5 (hash stream content): a hash stream written without error has N
\* entries; the entry at slot perm(i) is the key of chunk i followed by the
\* varint of its size, every other entry the all-zero key with size 0.
HashStreamContent ==
    hwPc = "done" =>
        /\ Len(hashOut) = N
        /\ \A j \in 1..N : ~MalformedVarint(hashOut[j].size)
        /\ \A i \in 1..Len(file) :
               /\ hashOut[perm[i] + 1].key = file[i]
               /\ readVarint(hashOut[perm[i] + 1].size) = chunkSize[file[i]]
        /\ \A s \in PlaceholderSlots :
               /\ hashOut[s + 1].key = emptyKey
               /\ hashOut[s + 1].size = <<0>>

\* A complete hash stream with a two-byte varint and a placeholder.
HashStreamWitness ==
    /\ hwPc = "done"
    /\ PlaceholderSlots # {}
    /\ \E j \in 1..Len(hashOut) : Len(hashOut[j].size) = 2

\* The wishlist bit of slot s, as written on the wire.
WireBit(s) == UnpackByte(wishOut[(s \div BitsPerByte) + 1])[(s % BitsPerByte) + 1]

\* C6 (dedup correctness): in a session that completes, the wishlist marks
\* exactly the slots whose chunk the receiver's store lacked before the
\* session, and as many chunks are written in the chunk-data phase.
DedupCorrectness ==
    dwPc = "done" =>
        /\ \A i \in 1..Len(file) : WireBit(perm[i]) = (file[i] \notin storeB)
        /\ \A s \in PlaceholderSlots : WireBit(s) = FALSE
        /\ Len(dataOut) = Cardinality(Missing)

\* A completed session in which some chunks were transferred and others not.
DedupWitness ==
    /\ dwPc = "done"
    /\ rcPc = "done"
    /\ Cardinality(Missing) >= 1
    /\ Cardinality(Missing) < Len(file)
    /\ PlaceholderSlots # {}

\* The emissions of forEachChunk that call for data: bit true, real chunk.
RequestedEmissions == SelectSeq(dwLog, LAMBDA e : e.bit /\ e.key # emptyKey)

\* C7 (chunk-data stream content): the stream holds, in slot order, one frame
\* for each slot whose bit is true and which carries a real chunk: the varint
\* of the chunk's size, then that many bytes of the chunk; nothing else.
ChunkDataStreamContent ==
    /\ \A j \in 1..Len(dwLog) : dwLog[j].slot = j - 1
    /\ Len(dataOut) = Len(RequestedEmissions)
    /\ \A j \in 1..Len(dataOut) :
           /\ ~MalformedVarint(dataOut[j].size)
           /\ readVarint(dataOut[j].size) = chunkSize[RequestedEmissions[j].key]
           /\ dataOut[j].data.key = RequestedEmissions[j].key
           /\ dataOut[j].data.len = chunkSize[RequestedEmissions[j].key]

\* WriteChunkData has succeeded, having sent a chunk and skipped a real
\* chunk and a placeholder.
ChunkDataStreamWitness ==
    /\ dwPc = "done"
    /\ Len(dataOut) >= 1
    /\ \E j \in 1..Len(dwLog) : ~dwLog[j].bit /\ dwLog[j].key # emptyKey
    /\ \E j \in 1..Len(dwLog) : dwLog[j].key = emptyKey
    /\ \E j \in 1..Len(dataOut) : Len(dataOut[j].size) = 2

\* C8 (spurious request rejection): a true bit read for a placeholder slot
\* makes WriteChunkData fail with SpuriousRequest, at that slot; it never
\* succeeds after one.
SpuriousRequestRejected ==
    \A j \in 1..Len(dwLog) :
        (dwLog[j].key = emptyKey /\ dwLog[j].bit) =>
            /\ dwPc = "failed"
            /\ dwErr = "SpuriousRequest"
            /\ j = Len(dwLog)

\* A placeholder's bit was read true after a real chunk had been sent.
SpuriousRequestWitness ==
    /\ dwErr = "SpuriousRequest"
    /\ Len(dataOut) >= 1

\* Bytes a wishlist of N bits takes.
WishlistBytes == (N + BitsPerByte - 1) \div BitsPerByte

\* C9 (wishlist too short): a wishlist source that ends before it has given
\* a bit for every slot never lets WriteChunkData succeed; it fails with
\* WishlistTooShort, unless a spurious request was met before the source ran
\* out. Success takes N bits read.
WishlistTooShortDetected ==
    /\ dwPc = "done" => Len(dwLog) = N
    /\ Len(wishOut) < WishlistBytes =>
        /\ dwPc # "done"
        /\ Len(dwLog) <= Len(wishOut) * BitsPerByte
        /\ dwPc = "failed" => dwErr \in {"WishlistTooShort", "SpuriousRequest"}

\* The source held one byte of a two-byte wishlist: WriteChunkData sent a
\* chunk, read the eight bits and failed on the ninth.
WishlistTooShortWitness ==
    /\ dwErr = "WishlistTooShort"
    /\ Len(wishOut) = WishlistBytes - 1
    /\ Len(dwLog) = BitsPerByte
    /\ Len(dataOut) >= 1

\* C10 (wishlist exact length): WriteChunkData succeeds only if N bits were
\* read, one per slot, and the byte source then ended; a byte left after the
\* N bits makes it fail with WishlistTooLong when every slot was handled
\* without error.
WishlistExactLength ==
    /\ dwPc = "done" =>
        /\ Len(dwLog) = N
        /\ \A j \in 1..N : dwLog[j].slot = j - 1
        /\ Len(wishOut) = WishlistBytes
        /\ pipe2 = [buf |-> <<>>, closed |-> "eof"]
    /\ (dwPc = "failed" /\ Len(wishOut) > WishlistBytes
          /\ dwErr \notin {"SpuriousRequest", "PermutationExhausted"}) =>
        /\ dwErr = "WishlistTooLong"
        /\ Len(dwLog) = N

\* A byte followed the wishlist of a file whose chunks had all been handled.
WishlistTooLongWitness ==
    /\ dwErr = "WishlistTooLong"
    /\ Len(wishOut) = WishlistBytes + 1
    /\ Len(dataOut) >= 1
    /\ Len(dwLog) = N

\* The emissions of forEachChunk that carried a chunk of the file.
RealEmissions == SelectSeq(dwLog, LAMBDA e : e.key # emptyKey)

\* The keys of a sequence of emissions.
EmissionKeys(es) == [j \in 1..Len(es) |-> es[j].key]

\* C11 (transfer status monotonicity): the first snapshot the callback gets is
\* (file size, 0); from one snapshot to the next bytesToTransfer never
\* increases and bytesTransferred never decreases; bytesTransferred of every
\* snapshot is at most bytesToTransfer of the last one; and when
\* WriteChunkData has succeeded, the last snapshot has both equal to the sum
\* of the sizes of the requested chunks.
TransferStatusMonotone ==
    /\ cbLog # <<>> => cbLog[1] = Snapshot(FileSize(file), 0)
    /\ \A j \in 1..(Len(cbLog) - 1) :
           /\ cbLog[j + 1].bytesToTransfer <= cbLog[j].bytesToTransfer
           /\ cbLog[j + 1].bytesTransferred >= cbLog[j].bytesTransferred
    /\ \A j \in 1..Len(cbLog) :
           cbLog[j].bytesTransferred <= cbLog[Len(cbLog)].bytesToTransfer
    /\ (cb /\ dwPc = "done") =>
           /\ cbLog[Len(cbLog)].bytesTransferred = SumSizes(EmissionKeys(RequestedEmissions))
           /\ cbLog[Len(cbLog)].bytesToTransfer = SumSizes(EmissionKeys(RequestedEmissions))

\* WriteChunkData has succeeded on a file of which one chunk was sent and
\* another was not: bytesToTransfer has gone down, bytesTransferred up.
TransferStatusWitness ==
    /\ cb
    /\ dwPc = "done"
    /\ Len(cbLog) >= 3
    /\ cbLog[Len(cbLog)].bytesTransferred > 0
    /\ cbLog[Len(cbLog)].bytesToTransfer < FileSize(file)

\* The snapshot that follows snapshot s once the emission e of a real chunk
\* has been handled.
SnapshotAfter(s, e) ==
    IF e.bit
    THEN Snapshot(s.bytesToTransfer, s.bytesTransferred + ChunkSize(e.key))
    ELSE Snapshot(s.bytesToTransfer - ChunkSize(e.key), s.bytesTransferred)

\* C12 (status callback sequence): with a callback supplied, WriteChunkData
\* invokes it with (file size, 0) before any wishlist bit is read or any data
\* written, then once after each real chunk handled, requested or not, in
\* slot order, and never for a placeholder slot; a successful run over k
\* chunks makes k + 1 callbacks.
StatusCallbackSequence ==
    cb =>
        /\ dwPc = "start" => cbLog = <<>> /\ dwLog = <<>> /\ dataOut = <<>>
        /\ dwPc # "start" =>
               /\ Len(cbLog) = 1 + Len(RealEmissions)
               /\ cbLog[1] = Snapshot(FileSize(file), 0)
               /\ \A j \in 1..Len(RealEmissions) :
                      cbLog[j + 1] = SnapshotAfter(cbLog[j], RealEmissions[j])
        /\ dwPc = "done" => Len(cbLog) = Len(file) + 1

\* WriteChunkData has succeeded on a file with a chunk that was sent, a chunk
\* that was not, and a placeholder slot.
StatusCallbackWitness ==
    /\ cb
    /\ dwPc = "done"
    /\ Len(file) >= 2
    /\ Len(RequestedEmissions) >= 1
    /\ Len(RequestedEmissions) < Len(RealEmissions)
    /\ Len(RealEmissions) < Len(dwLog)

\* The bytes the bit writer produces for a sequence of bits.
RECURSIVE BitsToBytes(_)
BitsToBytes(bits) ==
    IF bits = <<>> THEN <<>>
    ELSE IF Len(bits) <= BitsPerByte THEN <<PackBits(bits)>>
    ELSE <<PackBits(SubSeq(bits, 1, BitsPerByte))>>
             \o BitsToBytes(SubSeq(bits, BitsPerByte + 1, Len(bits)))

\* The wishlist a receiver that checks one entry at a time writes for the
\* hash list it was sent.
SequentialWishlist ==
    BitsToBytes([s \in 1..Len(hashOut) |-> Requested(hashOut[s].key)])

\* C13 (parallel possession checks keep wire order): whatever the order in
\* which the concurrent lookups complete, the bit handed to the bit writer at
\* position s is the result for the hash-list entry received at position s,
\* and the wishlist written is the one a sequential receiver writes.
ParallelChecksKeepOrder ==
    /\ Cardinality(Running) <= Workers
    /\ \A s \in 1..Len(slots) :
           /\ slots[s].key = hashOut[s].key
           /\ slots[s].requested = Requested(hashOut[s].key)
    /\ Len(wwAcc) <= Len(slots)
    /\ \A j \in 1..Len(wwAcc) :
           wwAcc[j] = Requested(hashOut[Len(slots) - Len(wwAcc) + j].key)
    /\ wwPc = "done" => wishOut = SequentialWishlist

\* A bit has been handed to the bit writer, and the lookup of a later entry
\* has completed while that of an earlier entry, whose result differs, is
\* still running.
ParallelChecksWitness ==
    /\ Len(slots) >= 1
    /\ \E q1, q2 \in DOMAIN lookups :
           /\ q1 < q2
           /\ ~lookups[q1].done
           /\ lookups[q2].done
           /\ Requested(lookups[q1].key) # Requested(lookups[q2].key)

\* C14 (permutation domain exhaustion): with more chunks than slots, neither
\* WriteChunkHashes nor forEachChunk ever succeeds; no more than N items are
\* put; the put that exhausts the domain fails and the operation returns
\* that error, after the N slots were emitted.
PermutationExhaustion ==
    /\ Len(file) > N => hwPc # "done" /\ dwPc # "done"
    /\ hwShuf.count <= N /\ dwShuf.count <= N
    /\ hwErr = "PermutationExhausted" =>
           /\ hwPc = "failed"
           /\ Len(file) > N
           /\ hwShuf.count = N
           /\ Len(hashOut) = N
    /\ dwErr = "PermutationExhausted" =>
           /\ dwPc = "failed"
           /\ Len(file) > N
           /\ dwShuf.count = N
           /\ Len(dwLog) = N

\* forEachChunk has failed on the put that follows the last slot, after a
\* chunk had been sent.
PermutationExhaustionWitness ==
    /\ dwErr = "PermutationExhausted"
    /\ Len(file) > N
    /\ N >= 2
    /\ Len(dataOut) >= 1

\* C15 (size independence of the padded phases): for a file of at most N
\* chunks, the number of entries of the hash stream and the number of bits
\* of the wishlist are N, the size of the permutation's domain, whatever the
\* number of chunks; two files under the same permutation therefore show the
\* same counts on both channels.
PaddedPhasesSizeIndependent ==
    Len(file) <= N =>
        /\ Len(hashOut) <= N
        /\ Len(slots) <= N
        /\ hwPc = "done" => Len(hashOut) = N
        /\ wwPc = "done" =>
               /\ Len(slots) = N
               /\ Len(wishOut) = WishlistBytes
        /\ dwPc = "done" => Len(dwLog) = N

\* The hash stream and the wishlist of a file with fewer chunks than slots
\* are complete.
PaddedPhasesWitness ==
    /\ hwPc = "done"
    /\ wwPc = "done"
    /\ dwPc = "done"
    /\ Len(file) >= 1
    /\ Len(file) + 2 <= N

\* The session of a file without chunks over EmptyFileSlots slots.
EmptyFileCase == file = <<>> /\ N = EmptyFileSlots

\* What the four stages of the empty-file session have produced so far.
EmptyFileStreams ==
    /\ NoFailure
    /\ \A j \in 1..Len(hashOut) : hashOut[j].key = emptyKey /\ hashOut[j].size = <<0>>
    /\ hwPc = "done" => Len(hashOut) = EmptyFileSlots
    /\ \A j \in 1..Len(slots) : ~slots[j].requested
    /\ wwPc = "done" => Len(slots) = EmptyFileSlots /\ wishOut = <<0>>
    /\ \A j \in 1..Len(dwLog) : ~dwLog[j].bit
    /\ dwPc = "done" => Len(dwLog) = EmptyFileSlots
    /\ dataOut = <<>>
    /\ bytesTransferred = 0
    /\ rcPc = "done" => fileB = <<>> /\ FileSize(fileB) = 0

\* C16 (empty-file session): with a file of 0 chunks and N_slots = 4, the
\* hash stream is 4 placeholder entries, the wishlist 4 false bits, the
\* chunk-data stream empty, the rebuilt file has 0 bytes, no stage fails, and
\* under fair scheduling every stage completes.
EmptyFileSession ==
    /\ [](EmptyFileCase => EmptyFileStreams)
    /\ EmptyFileCase ~> (AllDone /\ EmptyFileStreams)

\* The empty-file session over four slots has completed.
EmptyFileSessionWitness ==
    /\ EmptyFileCase
    /\ AllDone
    /\ Len(hashOut) = EmptyFileSlots
    /\ wishOut = <<0>>
    /\ fileB = <<>>

\* C17 (fail-fast emission): WriteChunkData has failed exactly when it has
\* an error to return, and from the first error on that error stays the one
\* returned and forEachChunk does nothing more: no slot is emitted, no item
\* put, no wishlist bit or byte read, no storage lookup made, f not invoked,
\* no callback made and nothing written to the output.
FailFastEmission ==
    /\ [](dwErr # "" <=> dwPc = "failed")
    /\ [][dwErr # "" =>
             /\ dwErr' = dwErr
             /\ UNCHANGED <<dwShuf, dwBits, dwLog, calls, cbLog, dataOut,
                            bytesToTransfer, bytesTransferred, pipe2>>]_vars

\* The per-chunk function has failed on a write, after a chunk had been
\* sent, while slots, chunks and wishlist bits were still to come.
FailFastWitness ==
    /\ dwErr = "WriteFailed"
    /\ Len(RequestedEmissions) >= 2
    /\ Len(dwLog) < N
    /\ dwShuf.count < Len(file)
    /\ dwBits # <<>>

\* C18 (slot alignment between phases): the key forEachChunk pairs with the
\* s-th wishlist bit is the key WriteChunkHashes wrote in the s-th hash-list
\* entry, for every slot, placeholders included; once both have completed,
\* for all N slots.
SlotAlignment ==
    /\ \A j \in 1..Min(Len(dwLog), Len(hashOut)) :
           /\ dwLog[j].slot = hashOut[j].slot
           /\ dwLog[j].key = hashOut[j].key
    /\ (hwPc = "done" /\ dwPc = "done") => Len(dwLog) = N /\ Len(hashOut) = N

\* Both phases have completed for a file whose chunks differ, were shuffled
\* out of order and left a placeholder slot.
SlotAlignmentWitness ==
    /\ hwPc = "done"
    /\ dwPc = "done"
    /\ Len(file) >= 2
    /\ file[1] # file[2]
    /\ perm[1] > perm[2]
    /\ PlaceholderSlots # {}

\* The wishlist bits not yet read: those the bit reader holds and those of
\* the bytes still in the source.
BitsLeft == Len(dwBits) + BitsPerByte * Len(pipe2.buf)

\* A step of forEachChunk that emits a placeholder slot.
PlaceholderEmission ==
    /\ Len(dwLog') = Len(dwLog) + 1
    /\ dwLog'[Len(dwLog')].key = emptyKey

\* C19 (placeholder slots touch nothing): the emission of a placeholder slot
\* reads exactly one wishlist bit; it makes no storage lookup, does not
\* invoke the per-chunk function, opens and disposes nothing, makes no
\* callback, writes no output byte and leaves bytesToTransfer and
\* bytesTransferred as they were.
PlaceholderTouchesNothing ==
    [][PlaceholderEmission =>
           /\ BitsLeft' = BitsLeft - 1
           /\ calls'.get = calls.get
           /\ calls'.f = calls.f
           /\ calls'.dispose = calls.dispose
           /\ calls'.open = calls.open
           /\ pipe3'.buf = pipe3.buf
           /\ UNCHANGED <<dataOut, cbLog, bytesToTransfer, bytesTransferred>>]_vars

\* WriteChunkData has succeeded after a placeholder slot was emitted between
\* two chunks of which at least one was sent.
PlaceholderWitness ==
    /\ dwPc = "done"
    /\ Len(dataOut) >= 1
    /\ \E j \in 2..(Len(dwLog) - 1) :
           /\ dwLog[j].key = emptyKey
           /\ dwLog[j - 1].key # emptyKey
           /\ dwLog[j + 1].key # emptyKey

\* The chunk handles storage.Get has returned: one for each call but a
\* failed one.
HandlesObtained == calls.get - (IF dwErr = "ChunkNotFound" THEN 1 ELSE 0)

\* C20 (handle disposal on every path): between the steps of forEachChunk,
\* and after it has returned with or without an error, every chunk handle
\* storage.Get returned has been disposed once and every reader opened for a
\* requested chunk has been closed; the chunk iterators of forEachChunk and
\* of WriteChunkHashes are open while the operation runs and disposed once it
\* has returned.
HandlesDisposed ==
    /\ calls.dispose = HandlesObtained
    /\ calls.close = calls.open
    /\ calls.open <= Len(RequestedEmissions)
    /\ dwPc \in {"put", "end"} => calls.iter = "open"
    /\ Terminated(dwPc) => calls.iter = "disposed"
    /\ hwPc \in {"put", "end"} => hwIter = "open"
    /\ Terminated(hwPc) => hwIter = "disposed"

\* The per-chunk function has failed in io.Copy on the second chunk it was
\* to send.
HandlesDisposedWitness ==
    /\ dwErr = "WriteFailed"
    /\ calls.get >= 2
    /\ calls.open = calls.get
    /\ calls.f = calls.get

====
